---- MODULE Spec2Model ----
(***************************************************************************)
(* Model of the retrieval pipeline of google-places-to-csv:                *)
(*   _request_json  (src/gmaps_scraper/api.py and src/text_runner.py)      *)
(*   _paginate      (same two files, identical text)                       *)
(* The two files carry two implementations of _request_json; the variable  *)
(* impl says which one runs.  Delays are counted in tenths of a second     *)
(* (time.sleep(2.1) is 21, backoff 1.0 is 10, the cap 16 is 160).          *)
(*                                                                         *)
(* Strings of the field mask are sequences of atoms: "," and " " are the   *)
(* characters, "a" and "b" are field letters, "N" stands for the text      *)
(* nextPageToken and "P" for the text places. (so <<"P","N">> is           *)
(* places.nextPageToken).                                                  *)
(*                                                                         *)
(* Optional JSON members are sequences of length 0 (absent / None) or 1.   *)
(* Upstream bodies are JSON objects whose "places", when present, is a     *)
(* list.                                                                   *)
(***************************************************************************)
EXTENDS Integers, Sequences, FiniteSets, TLC

\* ---------------------------------------------------------------- bounds
MaxPagesBound == 4
MaxBudget == 7
MaxSpecLen == 5

\* Longest field list handed to flatten_place.
MaxFields == 2

\* Most items on a page, and most pages, the upstream serves to main.
MaxPageItems == 2
MaxUpstreamPages == 2

\* ------------------------------------------------------ program constants
DefaultMaxRetries == 5
InitialBackoff == 10
BackoffCap == 160
PageDelay == 21
ExcerptLimit == 1000
NonJsonExcerptLimit == 500

VARIABLES
    impl,          \* "api" (gmaps_scraper/api.py) or "text_runner" (text_runner.py)
    entry,         \* "request": _request_json called directly; "paginate": _paginate
    path,          \* argument path
    field_mask,    \* argument field_mask (a string)
    max_retries,   \* argument max_retries of _request_json
    max_pages,     \* argument max_pages of _paginate
    payload,       \* the caller's payload dict
    pc,            \* "paginate" (loop head), "enter", "request", "done", "error"
    header,        \* value of the X-Goog-FieldMask header of the current call
    body,          \* json= argument of the current call
    attempt,       \* loop variable of _request_json (text_runner)
    backoff,       \* local backoff of _request_json (text_runner)
    upK,           \* upstream: number of transient statuses it answers first
    upFinal,       \* upstream: the response it answers after them
    calls,         \* requests.post calls made by the current _request_json call
    sleeps,        \* time.sleep delays of the current _request_json call
    page,          \* local page of _paginate
    token,         \* local token of _paginate
    all_places,    \* local all_places of _paginate
    reqlog,        \* bodies of the page requests issued, in order
    resplog,       \* data returned by each page request, in order
    pageDelays,    \* delays of the time.sleep(2.1) calls of _paginate
    reply,         \* value returned by a direct _request_json call (0 or 1 element)
    result,        \* value returned by _paginate (0 or 1 element)
    err,           \* exception that left _request_json
    place,         \* argument p of flatten_place / argument d of _get (a JSON value)
    fields,        \* argument fields of flatten_place (a list of strings)
    getpath,       \* argument path of _get (a string)
    out,           \* value returned by flatten_place or _get, or the exception raised
    pages,         \* main: the pages the upstream serves, each a list of raw items
    raw_places,    \* main: the list places that search_text returned
    rows           \* main: the rows handed to write_csv, or the exception raised

vars == << impl, entry, path, field_mask, max_retries, max_pages, payload, pc,
           header, body, attempt, backoff, upK, upFinal, calls, sleeps, page,
           token, all_places, reqlog, resplog, pageDelays, reply, result, err,
           place, fields, getpath, out, pages, raw_places, rows >>

Min(a, b) == IF a < b THEN a ELSE b

\* ------------------------------------------------------------ field mask
Chars == {",", " ", "a", "b", "N", "P"}

NextPageToken == <<"N">>

PlacesNextPageToken == <<"P", "N">>

RECURSIVE Split(_, _)
\* str.split(sep): the segments between separators; always at least one.
Split(s, sep) ==
    IF \A i \in 1..Len(s) : s[i] # sep THEN << s >>
    ELSE LET i == CHOOSE j \in 1..Len(s) :
                      s[j] = sep /\ \A k \in 1..(j - 1) : s[k] # sep
         IN  << SubSeq(s, 1, i - 1) >> \o Split(SubSeq(s, i + 1, Len(s)), sep)

RECURSIVE Strip(_)
\* str.strip(): leading and trailing blanks removed.
Strip(s) ==
    IF s = << >> THEN s
    ELSE IF s[1] = " " THEN Strip(Tail(s))
    ELSE IF s[Len(s)] = " " THEN Strip(SubSeq(s, 1, Len(s) - 1))
    ELSE s

RECURSIVE Join(_, _)
\* sep.join(list)
Join(list, sep) ==
    IF list = << >> THEN << >>
    ELSE IF Len(list) = 1 THEN list[1]
    ELSE list[1] \o << sep >> \o Join(Tail(list), sep)

Contains(list, x) == \E i \in 1..Len(list) : list[i] = x

RECURSIVE RawFields(_)
\* api.py line 27: [x.strip() for x in field_mask.split(",") if x.strip()]
RawFields(segs) ==
    IF segs = << >> THEN << >>
    ELSE IF Strip(segs[1]) = << >> THEN RawFields(Tail(segs))
    ELSE << Strip(segs[1]) >> \o RawFields(Tail(segs))

\* api.py lines 31-32
Canonical(f) == IF f = PlacesNextPageToken THEN NextPageToken ELSE f

RECURSIVE NormFields(_)
\* api.py lines 28-35: the list norm
NormFields(raw) ==
    IF raw = << >> THEN << >>
    ELSE << Canonical(raw[1]) >> \o NormFields(Tail(raw))

InsertFrontAlways(norm) == << NextPageToken >> \o norm

\* api.py lines 36-37: have_next is true iff some canonical field is the token
EnsureToken(norm) ==
    IF Contains(norm, NextPageToken) THEN norm ELSE << NextPageToken >> \o norm

RECURSIVE DedupeFrom(_, _)
\* api.py lines 40-43: fields, given what was kept so far
DedupeFrom(kept, rest) ==
    IF rest = << >> THEN kept
    ELSE IF Contains(kept, rest[1]) THEN DedupeFrom(kept, Tail(rest))
    ELSE DedupeFrom(Append(kept, rest[1]), Tail(rest))

\* api.py lines 27-48: the header value
ApiFieldMask(mask) ==
    Join(DedupeFrom(<< >>, EnsureToken(NormFields(RawFields(Split(mask, ","))))), ",")

\* text_runner.py lines 131-132
RunnerFieldMask(mask) ==
    IF ~Contains(Split(mask, ","), NextPageToken)
    THEN NextPageToken \o << "," >> \o mask
    ELSE mask

FieldMaskHeader(im, mask) ==
    IF im = "api" THEN ApiFieldMask(mask) ELSE RunnerFieldMask(mask)

\* ------------------------------------------------------------- JSON values
\* A JSON (Python) value is a record [t, v]: t is its type, v its content.  A dict's
\* content is a function from key strings to values, a list's a sequence of values.
\* Strings that the code computes carry what they were computed from: "json" is the
\* text json.dumps gives for v, "repr" the text str() gives for v.
Null == [t |-> "null", v |-> 0]

Str(s) == [t |-> "str", v |-> s]

Num(n) == [t |-> "num", v |-> n]

Bool(b) == [t |-> "bool", v |-> b]

List(l) == [t |-> "list", v |-> l]

Dict(d) == [t |-> "dict", v |-> d]

EmptyDict == Dict(<< >>)

\* An exception leaving the function.
AttributeError == [t |-> "raise", v |-> "AttributeError"]

TypeError == [t |-> "raise", v |-> "TypeError"]

IsRaise(x) == x.t = "raise"

IsDict(x) == x.t = "dict"

IsList(x) == x.t = "list"

\* isinstance(x, str)
IsStr(x) == x.t \in {"str", "json", "repr", "joined", "joinedchars", "joinedkeys", "clean"}

\* bool(x)
PyTruthy(x) ==
    CASE x.t = "null" -> FALSE
      [] x.t = "str"  -> x.v # ""
      [] x.t = "num"  -> x.v # 0
      [] x.t = "bool" -> x.v
      [] x.t = "list" -> x.v # << >>
      [] x.t = "dict" -> DOMAIN x.v # {}
      [] OTHER        -> TRUE

\* a or b
Or(a, b) == IF PyTruthy(a) THEN a ELSE b

\* d.get(k) for a dict d
DictGet(d, k) == IF k \in DOMAIN d.v THEN d.v[k] ELSE Null

\* x.get(k): only a dict has the method
ObjGet(x, k) == IF IsDict(x) THEN DictGet(x, k) ELSE AttributeError

RECURSIVE Text(_)
\* The text of a string given as a sequence of atoms.
Text(atoms) == IF atoms = << >> THEN "" ELSE atoms[1] \o Text(Tail(atoms))

\* path.split("."), each part as text
PathParts(dotted) ==
    LET segs == Split(dotted, ".") IN [i \in 1..Len(segs) |-> Text(segs[i])]

RECURSIVE GetParts(_, _)
\* utils.py lines 87-91: the loop of _get
GetParts(cur, parts) ==
    IF parts = << >> THEN cur
    ELSE IF ~IsDict(cur) THEN Null
    ELSE GetParts(DictGet(cur, parts[1]), Tail(parts))

\* utils.py lines 85-91: _get
PyGet(d, dotted) == GetParts(d, PathParts(dotted))

\* utils.py lines 93-99: _as_json
AsJson(val) == IF val.t = "null" THEN Null ELSE [t |-> "json", v |-> val]

\* utils.py lines 104-107: norm, inside _join
JoinNorm(x) ==
    IF IsDict(x) \/ IsList(x) THEN Or(AsJson(x), Str(""))
    ELSE IF IsStr(x) THEN x ELSE [t |-> "repr", v |-> x]

\* utils.py lines 101-108: _join.  A string is joined character by character and
\* a dict key by key; a number or True cannot be iterated.
PyJoin(items, sep) ==
    IF ~PyTruthy(items) THEN Null
    ELSE CASE IsList(items) ->
                [t |-> "joined",
                 v |-> << sep, [i \in 1..Len(items.v) |-> JoinNorm(items.v[i])] >>]
           [] IsDict(items) -> [t |-> "joinedkeys", v |-> << sep, DOMAIN items.v >>]
           [] IsStr(items)  -> [t |-> "joinedchars", v |-> << sep, items >>]
           [] OTHER         -> TypeError

\* out[col] = val, where computing val may have raised
Put(o, col, val) ==
    IF IsRaise(o) THEN o
    ELSE IF IsRaise(val) THEN val
    ELSE Dict([c \in DOMAIN o.v \cup {col} |-> IF c = col THEN val ELSE o.v[c]])

\* out.setdefault(col, val)
SetDefault(o, col, val) ==
    IF IsRaise(o) THEN o
    ELSE IF IsRaise(val) THEN val
    ELSE IF col \in DOMAIN o.v THEN o ELSE Put(o, col, val)

\* out.update(d), where computing d may have raised
Update(o, d) ==
    IF IsRaise(o) THEN o
    ELSE IF IsRaise(d) THEN d
    ELSE Dict([c \in DOMAIN o.v \cup DOMAIN d.v |->
                  IF c \in DOMAIN d.v THEN d.v[c] ELSE o.v[c]])

\* ------------------------------------------------------ normalize.py helpers
DisplayNameText == <<"displayName", ".", "text">>

\* normalize.py lines 18-29: _ADDR_TYPE_TO_COL.get(t); "" when t is no key
AddrTypeToCol(t) ==
    IF t.t # "str" THEN ""
    ELSE CASE t.v = "street_number"               -> "addr_street_number"
           [] t.v = "route"                       -> "addr_route"
           [] t.v = "sublocality_level_1"         -> "addr_sublocality"
           [] t.v = "sublocality"                 -> "addr_sublocality"
           [] t.v = "locality"                    -> "addr_locality"
           [] t.v = "administrative_area_level_2" -> "addr_admin_area2"
           [] t.v = "administrative_area_level_1" -> "addr_admin_area1"
           [] t.v = "country"                     -> "addr_country"
           [] t.v = "postal_code"                 -> "addr_postal_code"
           [] t.v = "postal_code_suffix"          -> "addr_postal_code_suffix"
           [] OTHER                               -> ""

RECURSIVE KeysSeq(_)
\* The keys of a dict, as the strings a loop over it yields.
KeysSeq(S) ==
    IF S = {} THEN << >>
    ELSE LET k == CHOOSE x \in S : TRUE IN << Str(k) >> \o KeysSeq(S \ {k})

\* normalize.py line 43: what "for t in types" yields.  The characters of a string
\* are one-character strings, none of them a key of the type table, so a string
\* yields nothing that reaches line 48; a number or True cannot be iterated.
TypesToScan(types) ==
    CASE IsList(types) -> types
      [] IsDict(types) -> List(KeysSeq(DOMAIN types.v))
      [] IsStr(types)  -> List(<< >>)
      [] OTHER         -> TypeError

RECURSIVE AddrTypes(_, _, _, _)
\* normalize.py lines 43-51
AddrTypes(o, ts, long_text, short_text) ==
    IF ts = << >> \/ IsRaise(o) THEN o
    ELSE LET t == ts[1]
         IN  IF IsList(t) \/ IsDict(t) THEN TypeError
             ELSE IF AddrTypeToCol(t) = "" THEN AddrTypes(o, Tail(ts), long_text, short_text)
             ELSE LET o1 == SetDefault(o, AddrTypeToCol(t), Or(long_text, short_text))
                      o2 == IF t.v = "country"
                            THEN SetDefault(o1, "addr_country_code", short_text)
                            ELSE o1
                  IN  AddrTypes(o2, Tail(ts), long_text, short_text)

RECURSIVE AddrComps(_, _)
\* normalize.py lines 39-51
AddrComps(o, comps) ==
    IF comps = << >> \/ IsRaise(o) THEN o
    ELSE LET comp == comps[1]
         IN  IF ~IsDict(comp) THEN AttributeError
             ELSE LET types      == Or(DictGet(comp, "types"), List(<< >>))
                      long_text  == Or(DictGet(comp, "longText"), DictGet(comp, "long_name"))
                      short_text == Or(DictGet(comp, "shortText"), DictGet(comp, "short_name"))
                      scan       == TypesToScan(types)
                  IN  IF IsRaise(scan) THEN scan
                      ELSE AddrComps(AddrTypes(o, scan.v, long_text, short_text), Tail(comps))

\* normalize.py lines 35-52
ExpandAddressComponents(ac_list) ==
    IF ~IsList(ac_list) THEN EmptyDict ELSE AddrComps(EmptyDict, ac_list.v)

\* normalize.py lines 54-68
ExpandHours(prefix, hours) ==
    IF ~IsDict(hours) THEN EmptyDict
    ELSE LET o1 == IF "openNow" \in DOMAIN hours.v
                   THEN Put(EmptyDict, prefix \o "_open_now",
                            Bool(PyTruthy(DictGet(hours, "openNow"))))
                   ELSE EmptyDict
             o2 == IF "weekdayDescriptions" \in DOMAIN hours.v
                   THEN Put(o1, prefix \o "_weekday_desc",
                            PyJoin(DictGet(hours, "weekdayDescriptions"), " | "))
                   ELSE o1
             o3 == IF "nextCloseTime" \in DOMAIN hours.v
                   THEN Put(o2, prefix \o "_next_close_time", DictGet(hours, "nextCloseTime"))
                   ELSE o2
         IN  IF "periods" \in DOMAIN hours.v
             THEN Put(o3, prefix \o "_periods_json", AsJson(DictGet(hours, "periods")))
             ELSE o3

\* normalize.py lines 70-77
ExpandPriceRange(pr) ==
    IF ~IsDict(pr) THEN EmptyDict
    ELSE LET start == Or(DictGet(pr, "startPrice"), EmptyDict)
         IN  Put(Put(EmptyDict, "price_start_units", ObjGet(start, "units")),
                 "price_start_currency", ObjGet(start, "currencyCode"))

\* normalize.py lines 79-89
ExpandViewport(vp) ==
    IF ~IsDict(vp) THEN EmptyDict
    ELSE LET low  == Or(DictGet(vp, "low"), EmptyDict)
             high == Or(DictGet(vp, "high"), EmptyDict)
         IN  Put(Put(Put(Put(EmptyDict,
                 "viewport_low_lat", ObjGet(low, "latitude")),
                 "viewport_low_lng", ObjGet(low, "longitude")),
                 "viewport_high_lat", ObjGet(high, "latitude")),
                 "viewport_high_lng", ObjGet(high, "longitude"))

\* normalize.py lines 91-97
ExpandPlusCode(c) ==
    IF ~IsDict(c) THEN EmptyDict
    ELSE Put(Put(EmptyDict, "pluscode_global", DictGet(c, "globalCode")),
             "pluscode_compound", DictGet(c, "compoundCode"))

\* normalize.py lines 9-14 and 158: _PRICE_LEVEL_MAP.get(lvl, None); a list or a
\* dict cannot be hashed
PriceLevelNum(lvl) ==
    IF IsList(lvl) \/ IsDict(lvl) THEN TypeError
    ELSE IF lvl.t # "str" THEN Null
    ELSE CASE lvl.v = "PRICE_LEVEL_INEXPENSIVE"    -> Num(1)
           [] lvl.v = "PRICE_LEVEL_MODERATE"       -> Num(2)
           [] lvl.v = "PRICE_LEVEL_EXPENSIVE"      -> Num(3)
           [] lvl.v = "PRICE_LEVEL_VERY_EXPENSIVE" -> Num(4)
           [] OTHER                                -> Null

\* normalize.py line 177: _get(c, "displayName.text") or c.get("id") or c.get("name")
ContainingName(c) ==
    LET a == PyGet(c, DisplayNameText)
    IN  IF PyTruthy(a) THEN a
        ELSE IF ~IsDict(c) THEN AttributeError
        ELSE Or(DictGet(c, "id"), DictGet(c, "name"))

RECURSIVE ContainingNames(_, _)
\* normalize.py lines 175-178: the list names, or the exception raised
ContainingNames(names, cs) ==
    IF cs = << >> THEN List(names)
    ELSE LET nm == ContainingName(cs[1])
         IN  IF IsRaise(nm) THEN nm
             ELSE ContainingNames(IF PyTruthy(nm) THEN Append(names, nm) ELSE names, Tail(cs))

\* normalize.py lines 172-183
ContainingPlaces(o, cp) ==
    IF IsList(cp)
    THEN LET names == ContainingNames(<< >>, cp.v)
             o1    == Put(o, "containing_places",
                          IF IsRaise(names) THEN names ELSE PyJoin(names, ";"))
         IN  IF ~IsRaise(names) /\ names.v = << >>
             THEN Put(o1, "containing_places_json", AsJson(cp))
             ELSE o1
    ELSE Put(o, "containing_places_json", AsJson(cp))

RECURSIVE ReviewTexts(_, _)
\* normalize.py lines 195-198: the list texts, or the exception raised; only a
\* string has replace
ReviewTexts(texts, rs) ==
    IF rs = << >> THEN List(texts)
    ELSE LET txt == Or(PyGet(rs[1], <<"text", ".", "text">>),
                       PyGet(rs[1], <<"originalText", ".", "text">>))
         IN  IF ~PyTruthy(txt) THEN ReviewTexts(texts, Tail(rs))
             ELSE IF ~IsStr(txt) THEN AttributeError
             ELSE ReviewTexts(Append(texts, [t |-> "clean", v |-> txt]), Tail(rs))

\* normalize.py lines 191-203
Reviews(o, revs) ==
    IF IsList(revs)
    THEN LET texts == ReviewTexts(<< >>, SubSeq(revs.v, 1, Min(3, Len(revs.v))))
         IN  Put(Put(Put(o, "review_count", Num(Len(revs.v))),
                     "reviews_sample", IF IsRaise(texts) THEN texts ELSE PyJoin(texts, " || ")),
                 "reviews_json", AsJson(revs))
    ELSE Put(o, "reviews_json", AsJson(revs))

\* ------------------------------------------------------------ flatten_place
\* normalize.py lines 216-222: the fixed known fields, in the order of lines 119-208
KnownFields ==
    << "id", "name", "displayName", "formattedAddress", "shortFormattedAddress",
       "primaryType", "primaryTypeDisplayName", "internationalPhoneNumber", "websiteUri",
       "googleMapsUri", "businessStatus", "pureServiceAreaBusiness", "rating",
       "userRatingCount", "types", "location", "viewport", "plusCode", "priceLevel",
       "priceRange", "currentOpeningHours", "regularOpeningHours", "containingPlaces",
       "addressComponents", "reviews", "reviewSummary" >>

\* normalize.py lines 115-116: _want
Want(key, norm_fields) ==
    \E i \in 1..Len(norm_fields) :
        Text(norm_fields[i]) = key \/ Text(norm_fields[i]) = "places." \o key

\* normalize.py lines 119-208: the statement guarded by _want(key)
KnownStage(key, item, o) ==
    CASE key = "id"                       -> Put(o, "id", ObjGet(item, "id"))
      [] key = "name"                     -> Put(o, "resource_name", ObjGet(item, "name"))
      [] key = "displayName"              -> Put(o, "display_name", PyGet(item, DisplayNameText))
      [] key = "formattedAddress"         -> Put(o, "formatted_address", ObjGet(item, key))
      [] key = "shortFormattedAddress"    -> Put(o, "short_address", ObjGet(item, key))
      [] key = "primaryType"              -> Put(o, "primary_type", ObjGet(item, key))
      [] key = "primaryTypeDisplayName"   ->
            Put(o, "primary_type_display", PyGet(item, <<"primaryTypeDisplayName", ".", "text">>))
      [] key = "internationalPhoneNumber" -> Put(o, "phone", ObjGet(item, key))
      [] key = "websiteUri"               -> Put(o, "website", ObjGet(item, key))
      [] key = "googleMapsUri"            -> Put(o, "gmap_url", ObjGet(item, key))
      [] key = "businessStatus"           -> Put(o, "business_status", ObjGet(item, key))
      [] key = "pureServiceAreaBusiness"  -> Put(o, "is_service_area_only", ObjGet(item, key))
      [] key = "rating"                   -> Put(o, "rating", ObjGet(item, key))
      [] key = "userRatingCount"          -> Put(o, "user_ratings_total", ObjGet(item, key))
      [] key = "types"                    ->
            Put(o, "types", IF IsDict(item) THEN PyJoin(DictGet(item, key), ",")
                            ELSE AttributeError)
      [] key = "location"                 ->
            Put(Put(o, "lat", PyGet(item, <<"location", ".", "latitude">>)),
                "lng", PyGet(item, <<"location", ".", "longitude">>))
      [] key = "viewport"                 ->
            Update(o, IF IsDict(item) THEN ExpandViewport(DictGet(item, key))
                      ELSE AttributeError)
      [] key = "plusCode"                 ->
            Update(o, IF IsDict(item) THEN ExpandPlusCode(DictGet(item, key))
                      ELSE AttributeError)
      [] key = "priceLevel"               ->
            Put(Put(o, "price_level", ObjGet(item, key)),
                "price_level_num",
                IF IsDict(item) THEN PriceLevelNum(DictGet(item, key)) ELSE AttributeError)
      [] key = "priceRange"               ->
            Update(o, IF IsDict(item) THEN ExpandPriceRange(DictGet(item, key))
                      ELSE AttributeError)
      [] key = "currentOpeningHours"      ->
            Update(o, IF IsDict(item) THEN ExpandHours("current_hours", DictGet(item, key))
                      ELSE AttributeError)
      [] key = "regularOpeningHours"      ->
            Update(o, IF IsDict(item) THEN ExpandHours("regular_hours", DictGet(item, key))
                      ELSE AttributeError)
      [] key = "containingPlaces"         ->
            IF IsRaise(o) THEN o
            ELSE IF IsDict(item) THEN ContainingPlaces(o, DictGet(item, key))
            ELSE AttributeError
      [] key = "addressComponents"        ->
            Update(o, IF IsDict(item) THEN ExpandAddressComponents(DictGet(item, key))
                      ELSE AttributeError)
      [] key = "reviews"                  ->
            IF IsRaise(o) THEN o
            ELSE IF IsDict(item) THEN Reviews(o, DictGet(item, key))
            ELSE AttributeError
      [] key = "reviewSummary"            ->
            Put(o, "review_summary_json",
                IF IsDict(item) THEN AsJson(DictGet(item, key)) ELSE AttributeError)

RECURSIVE RunKnown(_, _, _, _)
\* normalize.py lines 119-208
RunKnown(o, keys, item, norm_fields) ==
    IF keys = << >> THEN o
    ELSE RunKnown(IF Want(keys[1], norm_fields) THEN KnownStage(keys[1], item, o) ELSE o,
                  Tail(keys), item, norm_fields)

RECURSIVE ReplacePlaces(_)
\* f.replace("places.", ""): every occurrence goes
ReplacePlaces(f) ==
    IF f = << >> THEN << >>
    ELSE IF f[1] = "places." THEN ReplacePlaces(Tail(f))
    ELSE << f[1] >> \o ReplacePlaces(Tail(f))

\* normalize.py line 215
RequestedKeys(norm_fields) == {ReplacePlaces(norm_fields[i]) : i \in 1..Len(norm_fields)}

\* normalize.py lines 216-222
Materialized(norm_fields) ==
    {KnownFields[i] : i \in {j \in 1..Len(KnownFields) : Want(KnownFields[j], norm_fields)}}

\* normalize.py line 223: requested_keys - materialized
CatchAllKeys(norm_fields) ==
    {k \in RequestedKeys(norm_fields) : Text(k) \notin Materialized(norm_fields)}

\* The orders in which a loop over a set may yield its members.
Orders(S) ==
    {s \in [1..Cardinality(S) -> S] : \A i, j \in 1..Cardinality(S) : s[i] = s[j] => i = j}

RECURSIVE CatchAll(_, _, _)
\* normalize.py lines 223-228, the set yielding its members in the order ord
CatchAll(o, ord, item) ==
    IF ord = << >> \/ IsRaise(o) THEN o
    ELSE LET k   == ord[1]
             val == PyGet(item, k)
         IN  CatchAll(IF IsDict(val) \/ IsList(val)
                      THEN Put(o, Text(k) \o "_json", AsJson(val))
                      ELSE Put(o, Text(k), val),
                      Tail(ord), item)

\* normalize.py lines 103-230: flatten_place(p, fields); ord is the order in which
\* the set of line 223 yields its members
FlattenPlace(item, flds, ord) ==
    LET norm_fields == RawFields(flds)
    IN  CatchAll(RunKnown(EmptyDict, KnownFields, item, norm_fields), ord, item)

\* text_runner.py lines 183 and 187: str(x)
NaiveStr(x) == IF IsStr(x) THEN x ELSE [t |-> "repr", v |-> x]

\* text_runner.py lines 174-192, one field f
NaiveColumn(item, f) ==
    LET val == PyGet(item, ReplacePlaces(f))
    IN  IF IsList(val)
        THEN [t |-> "joined",
              v |-> << IF \A i \in 1..Len(val.v) : IsDict(val.v[i]) THEN ";" ELSE ",",
                       [i \in 1..Len(val.v) |-> NaiveStr(val.v[i])] >>]
        ELSE IF IsDict(val) THEN NaiveStr(val) ELSE val

RECURSIVE NaiveFlatten(_, _, _)
\* text_runner.py lines 159-196
NaiveFlatten(o, item, flds) ==
    IF flds = << >> THEN o
    ELSE NaiveFlatten(Put(o, Text(ReplacePlaces(flds[1])), NaiveColumn(item, flds[1])),
                      item, Tail(flds))

\* The flattening side at rest.
FlatIdle ==
    /\ place = Null
    /\ fields = << >>
    /\ getpath = << >>
    /\ out = Null
    /\ pages = << >>
    /\ raw_places = << >>
    /\ rows = List(<< >>)

\* --------------------------------------------------------- upstream model
Impls == {"api", "text_runner"}

SearchTextPath == "places:searchText"

Paths == {SearchTextPath, "places:searchNearby"}

BasePayload == [textQuery |-> "coffee in X", languageCode |-> "es"]

SampleMask == <<"P", "a", ",", "P", "b">>

\* Statuses the upstream answers while it is in a transient failure.
TransientStatuses == {429, 500, 502, 503, 504}

PlaceOpts == { << >>, << <<1>> >>, << <<2, 1>> >> }

TokenOpts == { << >>, << "" >>, << "t1" >>, << "t2" >> }

Datas == [places : PlaceOpts, nextPageToken : TokenOpts]

EmptyData == [places |-> << >>, nextPageToken |-> << >>]

\* What the upstream answers once the transient failures are over.
Finals ==
    {[status |-> 200, parseable |-> TRUE, data |-> d] : d \in Datas}
    \cup {[status |-> 200, parseable |-> FALSE, data |-> EmptyData]}
    \cup {[status |-> s, parseable |-> FALSE, data |-> EmptyData] : s \in {400, 404}}
    \cup {[status |-> 204, parseable |-> p, data |-> EmptyData] : p \in BOOLEAN}

TransientResponses ==
    {[status |-> s, parseable |-> FALSE, data |-> EmptyData] : s \in TransientStatuses}

\* Lengths of resp.text
BodyLens == {0, 1000, 1001}

\* Transient answers before a page's final answer, for the requests of _paginate.
PageRetryRuns == {0, 1, DefaultMaxRetries}

\* The response to the next requests.post of the current call.
Responses == IF calls < upK THEN TransientResponses ELSE {upFinal}

\* ------------------------------------------------------------ _request_json
NoErr == [kind |-> "none", status |-> 0, excerpt |-> 0, url |-> << >>]

PlacesBase == "https://places.googleapis.com/v1"

\* f"{PLACES_BASE}/{path}"
Url(p) == << PlacesBase, p >>

\* resp.text[:limit], as a length
Excerpt(len, limit) == Min(len, limit)

IsRetryableWide(status) == status \in {400, 404, 429, 500, 502, 503, 504}

\* text_runner.py line 149
IsRetryable(status) == status \in {429, 500, 502, 503, 504}

\* text_runner.py line 151
NextBackoff(b) == Min(b * 2, BackoffCap)

\* text_runner.py line 154, api.py line 54
HttpError(status, len) ==
    [kind |-> "HTTP", status |-> status, excerpt |-> Excerpt(len, ExcerptLimit),
     url |-> << >>]

\* text_runner.py line 147
NonJsonError(len) ==
    [kind |-> "NonJSON", status |-> 200, excerpt |-> Excerpt(len, NonJsonExcerptLimit),
     url |-> << >>]

\* api.py line 55: resp.json() raises on an unparseable body
JsonDecodeError(status) ==
    [kind |-> "JSONDecode", status |-> status, excerpt |-> 0, url |-> << >>]

\* text_runner.py line 155
ExhaustedError(p) ==
    [kind |-> "Exhausted", status |-> 0, excerpt |-> 0, url |-> Url(p)]

\* ---------------------------------------------------------------- _paginate
Truthy(opt) == opt # << >> /\ opt[1] # ""

LoopCondInclusive(pg, maxp) == pg <= maxp

\* while page < max_pages
LoopCond(pg, maxp) == pg < maxp

BuildBodyNoToken(p, tok) == p

\* body = dict(payload); if token: body["pageToken"] = token
BuildBody(p, tok) ==
    IF Truthy(tok)
    THEN [k \in DOMAIN p \cup {"pageToken"} |-> IF k = "pageToken" THEN tok[1] ELSE p[k]]
    ELSE p

\* dict(payload) is a copy: writing body["pageToken"] leaves the caller's dict as it was
CallerPayload(p, b) == p

\* data.get("places", [])
ExtractPlaces(data) == IF data.places = << >> THEN << >> ELSE data.places[1]

ExtendPrepend(acc, places) == places \o acc

\* all_places.extend(places)
Extend(acc, places) == acc \o places

\* data.get("nextPageToken")
GetToken(data) == data.nextPageToken

PropagateErrorPartial(acc) == [pc |-> "done", result |-> << acc >>]

\* _paginate has no try/except around _request_json: the exception leaves _paginate
\* and nothing is returned
PropagateError(acc) == [pc |-> "error", result |-> << >>]

\* lines 79-89 of api.py (219-229 of text_runner.py), after _request_json returned data
PageReceived(data) ==
    LET acc == Extend(all_places, ExtractPlaces(data))
        tok == GetToken(data)
    IN  /\ all_places' = acc
        /\ token' = tok
        /\ resplog' = Append(resplog, data)
        /\ UNCHANGED << reqlog, payload >>
        /\ IF ~Truthy(tok)
           THEN /\ pc' = "done"
                /\ result' = << acc >>
                /\ UNCHANGED << page, pageDelays >>
           ELSE /\ pageDelays' = Append(pageDelays, PageDelay)
                /\ page' = page + 1
                /\ pc' = "paginate"
                /\ UNCHANGED result

\* _request_json returns data to its caller
Return(data) ==
    /\ err' = err
    /\ IF entry = "request"
       THEN /\ pc' = "done"
            /\ reply' = << data >>
            /\ UNCHANGED << page, token, all_places, reqlog, resplog, pageDelays,
                            result, payload >>
       ELSE /\ reply' = reply
            /\ PageReceived(data)

\* _request_json raises e
Raise(e) ==
    /\ err' = e
    /\ UNCHANGED << reply, page, token, all_places, reqlog, resplog, pageDelays, payload >>
    /\ IF entry = "request"
       THEN pc' = "error" /\ UNCHANGED result
       ELSE LET o == PropagateError(all_places)
            IN  pc' = o.pc /\ result' = o.result

args == << impl, entry, path, field_mask, max_retries, max_pages >>

\* The state of the flattening side, which the retrieval side never touches.
flatvars == << place, fields, getpath, out, pages, raw_places, rows >>

\* ------------------------------------------------------------------ actions
\* A direct call of _request_json: the lines before the first requests.post.
RequestEnter ==
    /\ pc = "enter"
    /\ header' = FieldMaskHeader(impl, field_mask)
    /\ attempt' = 1
    /\ backoff' = InitialBackoff
    /\ pc' = "request"
    /\ UNCHANGED << args, flatvars, payload, body, upK, upFinal, calls, sleeps, page, token,
                    all_places, reqlog, resplog, pageDelays, reply, result, err >>

\* text_runner.py lines 141-145: status 200 with a parseable body
RunnerSuccess ==
    /\ pc = "request" /\ impl = "text_runner" /\ attempt <= max_retries
    /\ \E r \in Responses :
          /\ r.status = 200 /\ r.parseable
          /\ calls' = calls + 1
          /\ Return(r.data)
    /\ UNCHANGED << args, flatvars, header, body, attempt, backoff, upK, upFinal, sleeps >>

\* text_runner.py lines 143-147: status 200 with an unparseable body
RunnerNonJson ==
    /\ pc = "request" /\ impl = "text_runner" /\ attempt <= max_retries
    /\ \E r \in Responses, len \in BodyLens :
          /\ r.status = 200 /\ ~r.parseable
          /\ calls' = calls + 1
          /\ Raise(NonJsonError(len))
    /\ UNCHANGED << args, flatvars, header, body, attempt, backoff, upK, upFinal, sleeps >>

\* text_runner.py lines 149-152: retryable status
RunnerRetry ==
    /\ pc = "request" /\ impl = "text_runner" /\ attempt <= max_retries
    /\ \E r \in Responses :
          /\ r.status # 200 /\ IsRetryable(r.status)
          /\ calls' = calls + 1
          /\ sleeps' = Append(sleeps, backoff)
          /\ backoff' = NextBackoff(backoff)
          /\ attempt' = attempt + 1
    /\ UNCHANGED << args, flatvars, payload, pc, header, body, upK, upFinal, page, token,
                    all_places, reqlog, resplog, pageDelays, reply, result, err >>

\* text_runner.py line 154: any other status
RunnerFail ==
    /\ pc = "request" /\ impl = "text_runner" /\ attempt <= max_retries
    /\ \E r \in Responses, len \in BodyLens :
          /\ r.status # 200 /\ ~IsRetryable(r.status)
          /\ calls' = calls + 1
          /\ Raise(HttpError(r.status, len))
    /\ UNCHANGED << args, flatvars, header, body, attempt, backoff, upK, upFinal, sleeps >>

\* text_runner.py line 155: the for loop ran out
RunnerExhausted ==
    /\ pc = "request" /\ impl = "text_runner" /\ attempt > max_retries
    /\ Raise(ExhaustedError(path))
    /\ UNCHANGED << args, flatvars, header, body, attempt, backoff, upK, upFinal, calls, sleeps >>

\* api.py lines 52-54: one post; status >= 400 raises
ApiFail ==
    /\ pc = "request" /\ impl = "api"
    /\ \E r \in Responses, len \in BodyLens :
          /\ r.status >= 400
          /\ calls' = calls + 1
          /\ Raise(HttpError(r.status, len))
    /\ UNCHANGED << args, flatvars, header, body, attempt, backoff, upK, upFinal, sleeps >>

\* api.py lines 52-55: one post; status < 400 and resp.json() parses
ApiSuccess ==
    /\ pc = "request" /\ impl = "api"
    /\ \E r \in Responses :
          /\ r.status < 400 /\ r.parseable
          /\ calls' = calls + 1
          /\ Return(r.data)
    /\ UNCHANGED << args, flatvars, header, body, attempt, backoff, upK, upFinal, sleeps >>

\* api.py lines 52-55: one post; status < 400 and resp.json() raises
ApiNonJson ==
    /\ pc = "request" /\ impl = "api"
    /\ \E r \in Responses :
          /\ r.status < 400 /\ ~r.parseable
          /\ calls' = calls + 1
          /\ Raise(JsonDecodeError(r.status))
    /\ UNCHANGED << args, flatvars, header, body, attempt, backoff, upK, upFinal, sleeps >>

\* _paginate lines 71-76: the loop condition holds; build the body and call
\* _request_json (its lines before the first requests.post included)
PaginateRequest ==
    /\ pc = "paginate" /\ LoopCond(page, max_pages)
    /\ body' = BuildBody(payload, token)
    /\ payload' = CallerPayload(payload, body')
    /\ reqlog' = Append(reqlog, body')
    /\ header' = FieldMaskHeader(impl, field_mask)
    /\ attempt' = 1
    /\ backoff' = InitialBackoff
    /\ calls' = 0
    /\ sleeps' = << >>
    /\ \E k \in PageRetryRuns, f \in Finals : upK' = k /\ upFinal' = f
    /\ pc' = "request"
    /\ UNCHANGED << args, flatvars, page, token, all_places, resplog, pageDelays, reply, result, err >>

\* _paginate lines 71 and 91: the loop condition fails; return all_places
PaginateReturn ==
    /\ pc = "paginate" /\ ~LoopCond(page, max_pages)
    /\ pc' = "done"
    /\ result' = << all_places >>
    /\ UNCHANGED << args, flatvars, payload, header, body, attempt, backoff, upK, upFinal, calls,
                    sleeps, page, token, all_places, reqlog, resplog, pageDelays, reply, err >>

Init ==
    /\ impl \in Impls
    /\ entry \in {"request", "paginate"}
    /\ field_mask = SampleMask
    /\ payload = BasePayload
    /\ body = BasePayload
    /\ header = << >>
    /\ attempt = 1
    /\ backoff = InitialBackoff
    /\ calls = 0
    /\ sleeps = << >>
    /\ page = 0
    /\ token = << >>
    /\ all_places = << >>
    /\ reqlog = << >>
    /\ resplog = << >>
    /\ pageDelays = << >>
    /\ reply = << >>
    /\ result = << >>
    /\ err = NoErr
    /\ FlatIdle
    /\ IF entry = "request"
       THEN /\ path \in Paths
            /\ max_retries \in 0..MaxBudget
            /\ max_pages = 0
            /\ upK \in 0..(MaxBudget + 1)
            /\ upFinal \in Finals
            /\ pc = "enter"
       ELSE /\ path = SearchTextPath
            /\ max_retries = DefaultMaxRetries
            /\ max_pages \in (-1)..MaxPagesBound
            /\ upK = 0
            /\ upFinal = [status |-> 200, parseable |-> TRUE, data |-> EmptyData]
            /\ pc = "paginate"

Next ==
    \/ RequestEnter
    \/ RunnerSuccess
    \/ RunnerNonJson
    \/ RunnerRetry
    \/ RunnerFail
    \/ RunnerExhausted
    \/ ApiFail
    \/ ApiSuccess
    \/ ApiNonJson
    \/ PaginateRequest
    \/ PaginateReturn

Spec == Init /\ [][Next]_vars

\* ------------------------------------------- the field mask on its own
MaskInputs == UNION {[1..n -> Chars] : n \in 0..MaxSpecLen}

InitMask ==
    /\ impl \in Impls
    /\ entry = "request"
    /\ field_mask \in MaskInputs
    /\ path = SearchTextPath
    /\ max_retries = DefaultMaxRetries
    /\ max_pages = 0
    /\ upK = 0
    /\ upFinal = [status |-> 200, parseable |-> TRUE, data |-> EmptyData]
    /\ pc = "enter"
    /\ payload = BasePayload
    /\ body = BasePayload
    /\ header = << >>
    /\ attempt = 1
    /\ backoff = InitialBackoff
    /\ calls = 0
    /\ sleeps = << >>
    /\ page = 0
    /\ token = << >>
    /\ all_places = << >>
    /\ reqlog = << >>
    /\ resplog = << >>
    /\ pageDelays = << >>
    /\ reply = << >>
    /\ result = << >>
    /\ err = NoErr
    /\ FlatIdle

NextMask == RequestEnter

SpecMask == InitMask /\ [][NextMask]_vars

\* ---------------------------------------------------------- _get on its own
\* The retrieval side at rest, but for the arguments main passes on.
RequestIdleBut ==
    /\ path = SearchTextPath
    /\ max_retries = DefaultMaxRetries
    /\ upK = 0
    /\ upFinal = [status |-> 200, parseable |-> TRUE, data |-> EmptyData]
    /\ payload = BasePayload
    /\ body = BasePayload
    /\ header = << >>
    /\ attempt = 1
    /\ backoff = InitialBackoff
    /\ calls = 0
    /\ sleeps = << >>
    /\ page = 0
    /\ token = << >>
    /\ all_places = << >>
    /\ reqlog = << >>
    /\ resplog = << >>
    /\ pageDelays = << >>
    /\ reply = << >>
    /\ result = << >>
    /\ err = NoErr

\* The retrieval side at rest, while only the flattening side runs.
RequestIdle ==
    /\ RequestIdleBut
    /\ entry = "request"
    /\ field_mask = << >>
    /\ max_pages = 0

\* The variables of the retrieval side.
reqvars ==
    << args, payload, header, body, attempt, backoff, upK, upFinal, calls, sleeps, page,
       token, all_places, reqlog, resplog, pageDelays, reply, result, err >>

\* {k: val} and {k1: val1, k2: val2}
Obj1(k, val) == Dict([c \in {k} |-> val])

Obj2(k1, val1, k2, val2) == Dict([c \in {k1, k2} |-> IF c = k1 THEN val1 ELSE val2])

\* Values handed to _get: scalars, lists, and dicts nested up to two levels deep,
\* one of them with the empty string as a key.
GetValues ==
    { Null, Str("x"), Num(0), Bool(TRUE), List(<< >>), List(<< Str("x") >>), EmptyDict,
      Obj1("a", Num(1)), Obj1("a", Null), Obj1("a", Str("x")), Obj1("", Num(7)),
      Obj1("a", Obj1("b", Num(2))), Obj1("a", Obj1("", Num(3))),
      Obj1("a", List(<< Obj1("b", Num(2)) >>)), Obj2("a", Num(1), "b", Obj1("c", Num(4))) }

\* Paths handed to _get, the empty path among them.
GetPaths ==
    { << >>, <<"a">>, <<"b">>, <<"a", ".", "b">>, <<"b", ".", "c">>, <<"a", ".">>, <<".">>,
      <<"a", ".", "b", ".", "c">> }

InitGet ==
    /\ RequestIdle
    /\ impl = "api"
    /\ pc = "get"
    /\ place \in GetValues
    /\ getpath \in GetPaths
    /\ fields = << >>
    /\ out = Null
    /\ pages = << >>
    /\ raw_places = << >>
    /\ rows = List(<< >>)

\* utils.py lines 85-91: one call _get(d, path)
GetCall ==
    /\ pc = "get"
    /\ out' = PyGet(place, getpath)
    /\ pc' = "got"
    /\ UNCHANGED << reqvars, place, fields, getpath, pages, raw_places, rows >>

NextGet == GetCall

SpecGet == InitGet /\ [][NextGet]_vars

\* -------------------------------------------------- flatten_place on its own
\* "places." followed by a field name
Places(name) == <<"places.", name>>

\* Field strings handed to flatten_place: known fields with and without the
\* prefix and with blanks around, unknown fields, a nested path, the empty string.
FieldInputs ==
    { Places("id"), <<"id">>, <<" ", "places.", "id", " ">>, Places("displayName"),
      Places("types"), Places("location"), Places("viewport"), Places("plusCode"),
      Places("priceLevel"), Places("priceRange"), Places("currentOpeningHours"),
      Places("containingPlaces"), Places("addressComponents"), Places("reviews"),
      Places("reviewSummary"), Places("foo"), <<"foo">>, <<"foo_json">>,
      <<"places.", "foo", ".", "bar">>, <<"lat">>, << >> }

FieldLists == UNION {[1..n -> FieldInputs] : n \in 0..MaxFields}

\* Raw items of the right shape, one or two members each.
WellFormedItems ==
    { EmptyDict,
      Obj1("id", Str("A")),
      Obj2("id", Str("A"), "name", Str("places/A")),
      Obj1("displayName", Obj1("text", Str("Cafe"))),
      Obj1("types", List(<< Str("cafe"), Str("bar") >>)),
      Obj1("location", Obj2("latitude", Num(1), "longitude", Num(2))),
      Obj2("location", Obj2("latitude", Num(1), "longitude", Num(2)), "lat", Num(9)),
      Obj1("viewport", Obj2("low", Obj1("latitude", Num(1)), "high", EmptyDict)),
      Obj1("plusCode", Obj1("globalCode", Str("G"))),
      Obj1("priceLevel", Str("PRICE_LEVEL_MODERATE")),
      Obj1("priceRange", Obj1("startPrice", Obj2("units", Str("10"), "currencyCode", Str("USD")))),
      Obj1("currentOpeningHours",
           Obj2("openNow", Bool(TRUE), "weekdayDescriptions", List(<< Str("Mon") >>))),
      Obj1("containingPlaces", List(<< Obj1("id", Str("X")) >>)),
      Obj1("containingPlaces", List(<< >>)),
      Obj1("addressComponents",
           List(<< Obj2("types", List(<< Str("country") >>), "shortText", Str("CL")) >>)),
      Obj1("reviews", List(<< Obj1("text", Obj1("text", Str("good"))) >>)),
      Obj1("reviewSummary", Obj1("text", Str("s"))),
      Obj1("foo", Num(1)), Obj1("foo", Null), Obj1("foo", Obj1("a", Num(1))),
      Obj1("foo", Obj1("bar", List(<< Num(1) >>))), Obj1("foo", List(<< >>)),
      Obj2("foo", Obj1("a", Num(1)), "foo_json", Str("x")) }

\* Raw items with an absent member, an unknown enum token or a member of the wrong
\* shape, and raw items that are no dict.
MalformedItems ==
    { Obj1("displayName", Str("Cafe")),
      Obj1("types", Str("cafe")), Obj1("types", Num(5)),
      Obj1("location", List(<< Num(1), Num(2) >>)),
      Obj1("viewport", Obj1("low", Str("x"))), Obj1("viewport", Str("x")),
      Obj1("plusCode", Str("x")),
      Obj1("priceLevel", Str("PRICE_LEVEL_FREE")), Obj1("priceLevel", List(<< Str("x") >>)),
      Obj1("priceLevel", Obj1("a", Num(1))),
      Obj1("priceRange", Obj1("startPrice", Num(5))),
      Obj1("currentOpeningHours", Obj1("weekdayDescriptions", Num(5))),
      Obj1("currentOpeningHours", Str("x")),
      Obj1("containingPlaces", List(<< Str("x") >>)), Obj1("containingPlaces", Str("x")),
      Obj1("addressComponents", List(<< Str("x") >>)), Obj1("addressComponents", Str("x")),
      Obj1("addressComponents", List(<< Obj1("types", Num(5)) >>)),
      Obj1("addressComponents", List(<< Obj1("types", List(<< List(<< Str("x") >>) >>)) >>)),
      Obj1("reviews", List(<< Str("x") >>)), Obj1("reviews", Str("x")),
      Obj1("reviews", List(<< Obj1("text", Obj1("text", Num(5))) >>)),
      Str("x"), Null, List(<< >>) }

RawItems == WellFormedItems \cup MalformedItems

InitFlat ==
    /\ RequestIdle
    /\ impl = "api"
    /\ pc = "flatten"
    /\ place \in RawItems
    /\ fields \in FieldLists
    /\ getpath = << >>
    /\ out = Null
    /\ pages = << >>
    /\ raw_places = << >>
    /\ rows = List(<< >>)

\* normalize.py lines 103-230: one call flatten_place(p, fields)
FlattenCall ==
    /\ pc = "flatten"
    /\ \E ord \in Orders(CatchAllKeys(RawFields(fields))) :
           out' = FlattenPlace(place, fields, ord)
    /\ pc' = "flattened"
    /\ UNCHANGED << reqvars, place, fields, getpath, pages, raw_places, rows >>

NextFlat == FlattenCall

SpecFlat == InitFlat /\ [][NextFlat]_vars

\* -------------------------------------------------------------------- main
\* text_runner.py lines 35-62: DEFAULT_FIELDS, name by name
RunnerDefaultNames ==
    << "id", "name", "displayName", "formattedAddress", "location", "types", "primaryType",
       "businessStatus", "googleMapsUri", "primaryTypeDisplayName", "plusCode",
       "addressComponents", "shortFormattedAddress", "viewport", "pureServiceAreaBusiness",
       "containingPlaces", "internationalPhoneNumber", "websiteUri", "rating",
       "userRatingCount", "currentOpeningHours", "regularOpeningHours", "priceLevel",
       "priceRange", "reviews", "reviewSummary" >>

RunnerDefaultFields ==
    Join([i \in 1..Len(RunnerDefaultNames) |-> Places(RunnerDefaultNames[i])], ",")

RECURSIVE PaginateAll(_, _, _, _)
\* _paginate (api.py lines 68-91) against an upstream that answers 200 at once and
\* serves the pages ups, each but the last with a nextPageToken
PaginateAll(acc, pg, ups, maxp) ==
    IF ~LoopCond(pg, maxp) THEN acc
    ELSE IF Len(ups) = 1 THEN Extend(acc, ups[1])
    ELSE PaginateAll(Extend(acc, ups[1]), pg + 1, Tail(ups), maxp)

RECURSIVE DedupeById(_, _, _)
\* cli.py lines 49-54: the list uniq, or the exception raised
DedupeById(seen, uniq, ps) ==
    IF ps = << >> THEN List(uniq)
    ELSE IF ~IsDict(ps[1]) THEN AttributeError
    ELSE LET pid == Or(DictGet(ps[1], "id"), DictGet(ps[1], "name"))
         IN  IF ~PyTruthy(pid) THEN DedupeById(seen, uniq, Tail(ps))
             ELSE IF IsList(pid) \/ IsDict(pid) THEN TypeError
             ELSE IF pid \in seen THEN DedupeById(seen, uniq, Tail(ps))
             ELSE DedupeById(seen \cup {pid}, Append(uniq, ps[1]), Tail(ps))

RECURSIVE FlattenAll(_, _, _, _)
\* cli.py line 57: [flatten_place(p, fields) for p in places], or the exception raised
FlattenAll(done, ps, flds, ord) ==
    IF ps = << >> THEN List(done)
    ELSE LET row == FlattenPlace(ps[1], flds, ord)
         IN  IF IsRaise(row) THEN row ELSE FlattenAll(Append(done, row), Tail(ps), flds, ord)

\* text_runner.py line 283: [flatten_place(p, fields) for p in places]
NaiveFlattenAll(ps, flds) == List([i \in 1..Len(ps) |-> NaiveFlatten(EmptyDict, ps[i], flds)])

Location(lat, lng) == Obj2("latitude", Num(lat), "longitude", Num(lng))

\* Raw items the upstream serves: with an id (two of them the same id), with a name
\* only, with neither, with and without a location, one with a malformed member.
PipeItems ==
    { Obj1("id", Str("A")),
      Obj2("id", Str("A"), "location", Location(1, 2)),
      Obj2("id", Str("B"), "location", Location(3, 4)),
      Obj1("name", Str("places/C")),
      Obj1("location", Location(5, 6)),
      EmptyDict,
      Obj2("id", Str("D"), "addressComponents", List(<< Str("x") >>)) }

UpstreamPages == UNION {[1..n -> PipeItems] : n \in 0..MaxPageItems}

\* A 2-page upstream: 20 items, then 5 items, all with an id of their own and a
\* location.
ScenarioItem(i) == Obj2("id", Str(ToString(i)), "location", Location(i, 0 - i))

ScenarioPages ==
    << [i \in 1..20 |-> ScenarioItem(i)], [i \in 1..5 |-> ScenarioItem(20 + i)] >>

UpstreamScripts ==
    UNION {[1..n -> UpstreamPages] : n \in 1..MaxUpstreamPages} \cup {ScenarioPages}

\* --fields values
PipeMasks ==
    { Places("id") \o <<",">> \o Places("location"),
      Places("id"),
      Places("id") \o <<",", " ">> \o Places("addressComponents") }

InitPipe ==
    /\ RequestIdleBut
    /\ impl \in Impls
    /\ entry = "paginate"
    /\ field_mask \in PipeMasks
    /\ max_pages \in 1..3
    /\ pages \in UpstreamScripts
    /\ pc = "main"
    /\ place = Null
    /\ fields = << >>
    /\ getpath = << >>
    /\ out = Null
    /\ raw_places = << >>
    /\ rows = List(<< >>)

\* cli.py lines 35-57: main up to the rows handed to write_csv
MainCli ==
    /\ pc = "main"
    /\ impl = "api"
    /\ LET found == PaginateAll(<< >>, 0, pages, max_pages)
           uniq  == DedupeById({}, << >>, found)
           flds  == RawFields(Split(field_mask, ","))
       IN  /\ raw_places' = found
           /\ fields' = flds
           /\ \E ord \in Orders(CatchAllKeys(flds)) :
                  rows' = IF IsRaise(uniq) THEN uniq ELSE FlattenAll(<< >>, uniq.v, flds, ord)
    /\ pc' = "written"
    /\ UNCHANGED << reqvars, place, getpath, out, pages >>

\* text_runner.py lines 265-286: main, one query, csv format, up to the rows handed
\* to write_csv
MainRunner ==
    /\ pc = "main"
    /\ impl = "text_runner"
    /\ LET found == PaginateAll(<< >>, 0, pages, max_pages)
           flds  == Split(RunnerDefaultFields, ",")
       IN  /\ raw_places' = found
           /\ fields' = flds
           /\ rows' = NaiveFlattenAll(found, flds)
    /\ pc' = "written"
    /\ UNCHANGED << reqvars, place, getpath, out, pages >>

NextPipe ==
    \/ MainCli
    \/ MainRunner

SpecPipe == InitPipe /\ [][NextPipe]_vars

\* ------------------------------------------------- vocabulary of the claims
Max(a, b) == IF a < b THEN b ELSE a

Terminated == pc \in {"done", "error"}

TokenPresent(d) == d.nextPageToken # << >> /\ d.nextPageToken[1] # ""

LastOf(s) == s[Len(s)]

RECURSIVE PagesItems(_)
\* The items of the pages of a log, page after page, each page in upstream order.
PagesItems(log) ==
    IF log = << >> THEN << >>
    ELSE (IF log[1].places = << >> THEN << >> ELSE log[1].places[1])
         \o PagesItems(Tail(log))

RECURSIVE Pow2(_)
Pow2(n) == IF n = 0 THEN 1 ELSE 2 * Pow2(n - 1)

\* The entries of the header that was sent.
HeaderEntries == Split(header, ",")

CountOf(list, x) == Cardinality({i \in 1..Len(list) : list[i] = x})

NoDuplicates(list) == \A i, j \in 1..Len(list) : list[i] = list[j] => i = j

RECURSIVE FirstOcc(_)
\* A list with every element kept at its first occurrence only.
FirstOcc(list) ==
    IF list = << >> THEN << >>
    ELSE LET front == SubSeq(list, 1, Len(list) - 1)
             last  == list[Len(list)]
         IN  IF \E i \in 1..Len(front) : front[i] = last
             THEN FirstOcc(front)
             ELSE Append(FirstOcc(front), last)

RECURSIVE Without(_, _)
Without(list, x) ==
    IF list = << >> THEN << >>
    ELSE IF list[1] = x THEN Without(Tail(list), x)
    ELSE << list[1] >> \o Without(Tail(list), x)

RECURSIVE Requested(_)
\* The fields a specification asks for: its comma-separated segments, trimmed,
\* the empty ones dropped, both spellings of the token written nextPageToken.
Requested(segs) ==
    IF segs = << >> THEN << >>
    ELSE LET f == Strip(segs[1])
         IN  IF f = << >> THEN Requested(Tail(segs))
             ELSE << (IF f = <<"P", "N">> THEN <<"N">> ELSE f) >> \o Requested(Tail(segs))

RequestedFields == Requested(Split(field_mask, ","))

\* The requested fields that are no known field, the prefix "places." removed.
UnknownRequested(flds) ==
    {k \in {ReplacePlaces(Strip(flds[i])) :
                i \in {j \in 1..Len(flds) : Strip(flds[j]) # << >>}} :
        \A i \in 1..Len(KnownFields) : Text(k) # KnownFields[i]}

\* --fields asks for the location of the places.
LocationRequested ==
    \E i \in 1..Len(Split(field_mask, ",")) :
        Strip(Split(field_mask, ",")[i]) \in {Places("location"), <<"location">>}

\* ------------------------------------------------------------------ claims

\* C1: a direct _request_json call with budget N whose upstream answers k < N
\* retryable statuses and then a 200 with a parseable body returns that body after
\* exactly k+1 network calls and k sleeps, the delays doubling from the initial
\* backoff, non-decreasing and never above 16 s.
C1_RetryThenSuccess ==
    (/\ entry = "request" /\ Terminated
     /\ upK < max_retries
     /\ upFinal.status = 200 /\ upFinal.parseable)
    => /\ pc = "done"
       /\ reply = << upFinal.data >>
       /\ calls = upK + 1
       /\ Len(sleeps) = upK
       /\ \A i \in 1..Len(sleeps) : sleeps[i] = Min(InitialBackoff * Pow2(i - 1), BackoffCap)
       /\ \A i \in 1..(Len(sleeps) - 1) : sleeps[i] <= sleeps[i + 1]
       /\ \A i \in 1..Len(sleeps) : sleeps[i] <= 160

\* C1 for the implementation of text_runner.py alone.
C1_RunnerOnly == impl = "text_runner" => C1_RetryThenSuccess

\* C2: _paginate with max_pages = 1 whose first response carries a non-empty token
\* returns exactly the first page's items after one request and zero inter-page delays.
C2_SinglePageNoDelay ==
    (/\ entry = "paginate" /\ pc = "done" /\ max_pages = 1
     /\ resplog # << >> /\ TokenPresent(resplog[1]))
    => /\ result = << PagesItems(<< resplog[1] >>) >>
       /\ Len(reqlog) = 1
       /\ pageDelays = << >>

\* C3: once a page with an absent or empty token has been received (after n pages
\* that carried one), _paginate has stopped, its result is the items of the fetched
\* pages concatenated in fetch order (a page without "places" adds nothing), and it
\* has made exactly n inter-page delays.
C3_StopOnEmptyToken ==
    (/\ entry = "paginate" /\ resplog # << >> /\ ~TokenPresent(LastOf(resplog)))
    => /\ pc = "done"
       /\ err = NoErr
       /\ result = << PagesItems(resplog) >>
       /\ Len(reqlog) = Len(resplog)
       /\ Len(pageDelays) = Len(resplog) - 1
       /\ \A i \in 1..(Len(resplog) - 1) : TokenPresent(resplog[i])

C3_Witness ==
    /\ entry = "paginate" /\ pc = "done" /\ max_pages = 4
    /\ Len(resplog) = 4
    /\ resplog[1].places = << <<2, 1>> >>
    /\ resplog[2].places = << >>
    /\ resplog[3].places = << <<1>> >>
    /\ resplog[4].places = << <<2, 1>> >>
    /\ resplog[4].nextPageToken = << "" >>
    /\ result = << <<2, 1, 1, 2, 1>> >>
    /\ pageDelays = <<21, 21, 21>>

\* C4: _paginate issues at most max_pages page requests (none when max_pages <= 0);
\* when the cap is reached with a token still held, it leaves the loop and returns
\* the items accumulated so far as a normal result, no error raised.
C4_PageCap ==
    /\ Len(reqlog) <= Max(max_pages, 0)
    /\ (/\ entry = "paginate" /\ resplog # << >>
        /\ Len(resplog) = max_pages /\ TokenPresent(LastOf(resplog)))
       => /\ pc \in {"paginate", "done"}
          /\ err = NoErr
          /\ pc = "paginate" => page >= max_pages
          /\ pc = "done" => result = << PagesItems(resplog) >>

C4_Witness ==
    /\ entry = "paginate" /\ pc = "done" /\ max_pages = 2
    /\ Len(reqlog) = 2 /\ Len(resplog) = 2
    /\ TokenPresent(resplog[2])
    /\ result = << <<1, 2, 1>> >>

\* C5: the first page request carries no pageToken, every later one carries exactly
\* the nextPageToken of the response right before it, and the caller's payload is
\* never changed (every body is the payload's entries plus, at most, pageToken).
C5_ContinuationOrder ==
    /\ payload = BasePayload
    /\ \A i \in 1..Len(reqlog) :
          /\ \A k \in DOMAIN BasePayload :
                k \in DOMAIN reqlog[i] /\ reqlog[i][k] = BasePayload[k]
          /\ IF i = 1
             THEN DOMAIN reqlog[i] = DOMAIN BasePayload
             ELSE /\ DOMAIN reqlog[i] = DOMAIN BasePayload \cup {"pageToken"}
                  /\ i - 1 <= Len(resplog)
                  /\ reqlog[i]["pageToken"] = resplog[i - 1].nextPageToken[1]

C5_Witness ==
    /\ entry = "paginate" /\ Len(reqlog) = 3 /\ Len(resplog) = 3
    /\ "pageToken" \notin DOMAIN reqlog[1]
    /\ resplog[1].nextPageToken = << "t2" >>
    /\ resplog[2].nextPageToken = << "t1" >>
    /\ reqlog[2]["pageToken"] = "t2"
    /\ reqlog[3]["pageToken"] = "t1"

\* C6: once a page request of _paginate has ended in an error, the query has ended
\* in that error, nothing is returned (no partial result), and no further request
\* or network call is made.
C6_ErrorAbortsQuery ==
    /\ [](entry = "paginate" /\ err # NoErr => pc = "error" /\ result = << >>)
    /\ [][entry = "paginate" /\ err # NoErr
            => reqlog' = reqlog /\ calls' = calls /\ err' = err /\ result' = result]_vars

C6_Witness ==
    /\ entry = "paginate" /\ pc = "error"
    /\ err.kind = "Exhausted"
    /\ Len(resplog) = 2 /\ Len(reqlog) = 3
    /\ all_places = <<2, 1, 1>>
    /\ result = << >>

\* C7: a direct _request_json call with budget N whose upstream answers only
\* retryable statuses ends after exactly N network calls with the retries-exhausted
\* error naming the endpoint; no call ever makes more than N network calls.
C7_ExhaustAfterBudget ==
    /\ entry = "request" => calls <= max_retries
    /\ (entry = "request" /\ Terminated /\ upK >= max_retries)
       => /\ pc = "error"
          /\ err.kind = "Exhausted"
          /\ err.url = << "https://places.googleapis.com/v1", path >>
          /\ calls = max_retries

\* C7 for the implementation of text_runner.py alone.
C7_RunnerOnly == impl = "text_runner" => C7_ExhaustAfterBudget

C9_MaskNormalized ==
    pc = "request"
    => /\ CountOf(HeaderEntries, <<"N">>) = 1
       /\ NoDuplicates(HeaderEntries)
       /\ Without(HeaderEntries, <<"N">>) = FirstOcc(Without(RequestedFields, <<"N">>))

\* C9 for the implementation of api.py alone.
C9_ApiOnly == impl = "api" => C9_MaskNormalized

\* C10 as stated: nextPageToken is always the first member of the normalized mask.
C10_TokenAlwaysFirst ==
    pc = "request" => HeaderEntries[1] = <<"N">>

\* C10 amended: nextPageToken is the first member of the mask when the caller did
\* not supply it in either spelling; when the caller supplied it, api.py leaves it
\* at the place of its first occurrence: the mask is the requested fields, each at
\* its first occurrence.
C10_TokenFirstWhenAbsent ==
    pc = "request"
    => IF CountOf(RequestedFields, <<"N">>) = 0
       THEN HeaderEntries[1] = <<"N">>
       ELSE impl = "api" => HeaderEntries = FirstOcc(RequestedFields)

C10_Witness ==
    /\ impl = "api" /\ pc = "request"
    /\ field_mask = <<"a", ",", "N", ",", "b">>
    /\ HeaderEntries = << <<"a">>, <<"N">>, <<"b">> >>

\* C15: within one _request_json call every backoff sleep is followed by another
\* network attempt of the same call (a call that has ended made fewer sleeps than
\* network calls), and every new call starts again from the initial backoff.
C15_SleepsOnlyBetweenRetries ==
    /\ (pc \notin {"enter", "request"} /\ calls >= 1) => Len(sleeps) < calls
    /\ (pc \notin {"enter", "request"} /\ calls = 0) => sleeps = << >>
    /\ sleeps # << >> => sleeps[1] = InitialBackoff
    /\ (pc = "request" /\ calls = 0) => (backoff = InitialBackoff /\ sleeps = << >>)

\* C15, second half alone: the retry state is not carried from call to call.
C15_FreshBackoffPerCall ==
    /\ sleeps # << >> => sleeps[1] = InitialBackoff
    /\ (pc = "request" /\ calls = 0) => (backoff = InitialBackoff /\ sleeps = << >>)

\* C13: _get reports an error for the empty path, whatever the value it is given, and
\* returns without raising for every other path.
C13_EmptyPathIsError ==
    pc = "got" =>
        /\ getpath = << >> => IsRaise(out)
        /\ getpath # << >> => ~IsRaise(out)

\* C13, second half alone: _get raises for no value and no path.
C13_NeverRaises == pc = "got" => ~IsRaise(out)

\* C11: flatten_place raises for no raw item and no field list; it always returns
\* a record.
C11_FlattenNeverRaises == pc = "flattened" => IsDict(out)

\* C12: in the record flatten_place returns, every requested field that is not a
\* known field has its column: named after the field path and holding the resolved
\* value when that is a scalar, a boolean or null, or named with the suffix "_json"
\* and holding the JSON serialization when it is an object or a list.
C12_CatchAllColumns ==
    (pc = "flattened" /\ IsDict(out)) =>
        \A k \in UnknownRequested(fields) :
            LET val == PyGet(place, k)
            IN  IF IsDict(val) \/ IsList(val)
                THEN /\ Text(k) \o "_json" \in DOMAIN out.v
                     /\ out.v[Text(k) \o "_json"] = [t |-> "json", v |-> val]
                ELSE /\ Text(k) \in DOMAIN out.v
                     /\ out.v[Text(k)] = val

\* C14: main hands the sink one record per raw item that pagination returned, in the
\* same order: record i has the id of item i in its id column and, when location is
\* requested, the item's location.latitude and location.longitude in lat and lng;
\* the upstream with 20 and then 5 items and max_pages = 3 gives 25 records.
C14_OneRecordPerItem ==
    pc = "written" =>
        /\ IsList(rows)
        /\ Len(rows.v) = Len(raw_places)
        /\ (pages = ScenarioPages /\ max_pages = 3) => Len(rows.v) = 25
        /\ \A i \in 1..Len(raw_places) :
               LET row == rows.v[i]
               IN  /\ IsDict(row)
                   /\ "id" \in DOMAIN row.v
                   /\ row.v["id"] = PyGet(raw_places[i], <<"id">>)
                   /\ LocationRequested =>
                         /\ "lat" \in DOMAIN row.v
                         /\ "lng" \in DOMAIN row.v
                         /\ row.v["lat"] = PyGet(raw_places[i], <<"location", ".", "latitude">>)
                         /\ row.v["lng"] = PyGet(raw_places[i], <<"location", ".", "longitude">>)

====
